---- MODULE Spec2Model ----
(***************************************************************************)
(* Route-selection engine of the CANNX node (SvenRosvall/CANNX).           *)
(*                                                                         *)
(* The node receives learned bus events.  Every ON event is a button       *)
(* press; the event variables (EVs) of the event are the candidate routes  *)
(* of that button.  A press that follows another one within the interval   *)
(* configured in node variable 1 is matched against the candidates saved   *)
(* by the previous press and the selected route is sent as an ACON event.  *)
(*                                                                         *)
(* Program state: lastButtonPressTime, possibleRoutes, and node variable 1.*)
(* Observation of the most recent eventhandler call: the frame's opcode,   *)
(* the EVs of the event, the clock reading used for classification, the    *)
(* messages sent and the lines written to Serial.                          *)
(***************************************************************************)
EXTENDS Integers, Sequences, FiniteSets

VARIABLES
    lastButtonPressTime,  \* long lastButtonPressTime, in ms
    possibleRoutes,       \* byte possibleRoutes[NumEVs]
    nv1,                  \* node variable 1 as VLCB::readNV(1) returns it
    handled,              \* TRUE once eventhandler has been called
    presses,              \* ON events handled so far: 0, 1, or 2 for two or more
    chainStart,           \* time saved by the ON event that began the current chain:
                          \* the latest one that was the first after start or was
                          \* classified as a first press
    opc,                  \* msg->data[0] of the most recent call
    evs,                  \* EVs 1..NumEVs as last read with getEventEVval
    now,                  \* millis() as last read by isSubsequentButtonPress
    sent,                 \* EN of the messages sent by the most recent call
    log                   \* lines the most recent call wrote to Serial

vars == <<lastButtonPressTime, possibleRoutes, nv1, handled, presses, chainStart, opc,
          evs, now, sent, log>>

(***************************************************************************)
(* Bounds of the model.  NumEVs is 20 in the source; the loops over it are *)
(* modelled for a smaller number of event variables.  The clock is read in *)
(* ticks of TickMs milliseconds.                                           *)
(***************************************************************************)
NumEVs == 2
MaxRoute == 2
MaxNV == 3
TickMs == 50
MaxTick == 3

OPC_ACON == 144
OPC_ACOF == 145

Slots == 1..NumEVs
Routes == 0..MaxRoute
CandidateSets == [Slots -> Routes]
NVValues == 0..MaxNV
Opcodes == {OPC_ACON, OPC_ACOF}
Times == {k * TickMs : k \in 0..MaxTick}
Lags == {0, TickMs}

Byte(x) == x % 256

Line(text, val) == [text |-> text, val |-> val]

(***************************************************************************)
(* Press timer.                                                            *)
(***************************************************************************)
\* byte buttonPressInterval = VLCB::readNV(1) * 100;
buttonPressInterval(nv) == Byte(nv * 100)

\* isSubsequentButtonPress with <= for <
isSubsequentButtonPress_Inclusive(t, last, nv) ==
    t <= last + buttonPressInterval(nv)

\* return now < lastButtonPressTime + buttonPressInterval;
isSubsequentButtonPress(t, last, nv) == t < last + buttonPressInterval(nv)

\* saveLastButtonPressTime whose assignment does not reach the global,
\* which keeps its initial 0
saveLastButtonPressTime_Unsaved(t) == 0

\* lastButtonPressTime = millis();
saveLastButtonPressTime(t) == t

(***************************************************************************)
(* Candidate store.                                                        *)
(***************************************************************************)
\* VLCB::getEventEVval(eventIndex, evnum) for the event whose EVs are ev
getEventEVval(ev, evnum) == ev[evnum]

\* The loop of saveRoutesFromEvent from slot i on, routes being the array
\* as written so far:  possibleRoutes[i] = getEventEVval(eventIndex, i + 1)
RECURSIVE saveLoop(_, _, _)
saveLoop(routes, ev, i) ==
    IF i > NumEVs THEN routes
    ELSE saveLoop([routes EXCEPT ![i] = getEventEVval(ev, i)], ev, i + 1)

\* saveRoutesFromEvent that saves only the routes that were saved before:
\* the stored candidates become an accumulated intersection
saveRoutesFromEvent_Intersected(routes, ev) ==
    [i \in Slots |-> IF \E j \in Slots : routes[j] = ev[i] THEN ev[i] ELSE 0]

\* saveRoutesFromEvent that keeps the saved route of a slot the event
\* leaves unconfigured
saveRoutesFromEvent_Merged(routes, ev) ==
    [i \in Slots |-> IF ev[i] # 0 THEN ev[i] ELSE routes[i]]

\* possibleRoutes after saveRoutesFromEvent(eventIndex), routes before it
saveRoutesFromEvent(routes, ev) == saveLoop(routes, ev, 1)

\* routeIsSaved that compares the loop index, not the saved route
routeIsSaved_ComparesIndex(stored, newRoute) == \E j \in Slots : j = newRoute

\* routeIsSaved with a loop that stops one slot early
routeIsSaved_OffByOne(stored, newRoute) ==
    \E j \in 1..(NumEVs - 1) : stored[j] = newRoute

\* for j in 0..NumEVs-1: if (possibleRoutes[j] == newRoute) return true
routeIsSaved(stored, newRoute) == \E j \in Slots : stored[j] = newRoute

(***************************************************************************)
(* Route resolver.  matchStep is one iteration of the loop of              *)
(* findMatchingRoute, matchLoop the loop from slot i to the last slot.     *)
(***************************************************************************)
\* matchStep without the test "if (selectedRoute == 0)": the last match wins
matchStep_LastWins(stored, newRoute, acc) ==
    IF \E j \in Slots : stored[j] = newRoute
    THEN [routeCount |-> Byte(acc.routeCount + 1), selectedRoute |-> newRoute]
    ELSE acc

\* matchStep that counts a match only while no route is selected yet
matchStep_CountsFirstOnly(stored, newRoute, acc) ==
    IF (\E j \in Slots : stored[j] = newRoute) /\ acc.selectedRoute = 0
    THEN [routeCount |-> Byte(acc.routeCount + 1), selectedRoute |-> newRoute]
    ELSE acc

matchStep(stored, newRoute, acc) ==
    IF routeIsSaved(stored, newRoute)
    THEN [routeCount |-> Byte(acc.routeCount + 1),
          selectedRoute |-> IF acc.selectedRoute = 0 THEN newRoute
                            ELSE acc.selectedRoute]
    ELSE acc

RECURSIVE matchLoop(_, _, _, _)
matchLoop(stored, ev, i, acc) ==
    IF i > NumEVs THEN acc
    ELSE matchLoop(stored, ev, i + 1, matchStep(stored, getEventEVval(ev, i), acc))

\* the Serial output of findMatchingRoute for a given routeCount
matchDiagnostics(routeCount) ==
    IF routeCount = 0 THEN <<Line("No possible routes found.", 0)>>
    ELSE IF routeCount >= 2 THEN <<Line("Found possible routes", routeCount)>>
    ELSE <<>>

\* the locals of findMatchingRoute at its return, and what it printed
findMatchingRoute(stored, ev) ==
    LET acc == matchLoop(stored, ev, 1, [routeCount |-> 0, selectedRoute |-> 0])
    IN  [selectedRoute |-> acc.selectedRoute,
         routeCount |-> acc.routeCount,
         log |-> matchDiagnostics(acc.routeCount)]

(***************************************************************************)
(* Event handler.                                                          *)
(***************************************************************************)
\* ison with the test of the low bit the wrong way round
ison_Inverted(op) == op % 2 = 1

\* bool ison = (msg->data[0] & 0x01) == 0;
ison(op) == op % 2 = 0

\* notification with the send inside the matching loop: one per match
notification_PerMatch(subsequent, found) ==
    IF subsequent THEN [k \in 1..found.routeCount |-> found.selectedRoute]
    ELSE <<>>

\* notification with the send outside the if: every ON event sends
notification_Always(subsequent, found) == <<found.selectedRoute>>

\* What the handler sends for an ON event:
\* if (isSubsequentButtonPress()) { ... sendMessageWithNN(OPC_ACON, 0, selectedRoute); }
notification(subsequent, found) ==
    IF subsequent THEN <<found.selectedRoute>> ELSE <<>>

\* The body of eventhandler for an ON event: t1 is the clock read by
\* isSubsequentButtonPress, t2 the clock read by saveLastButtonPressTime.
handleOn(ev, op, t1, t2) ==
    LET subsequent == isSubsequentButtonPress(t1, lastButtonPressTime, nv1)
        found == findMatchingRoute(possibleRoutes, ev)
    IN  /\ evs' = ev
        /\ now' = t1
        /\ presses' = IF presses = 0 THEN 1 ELSE 2
        /\ chainStart' = IF subsequent /\ presses >= 1 THEN chainStart ELSE t2
        /\ sent' = notification(subsequent, found)
        /\ log' = <<Line("event handler", op)>>
                  \o (IF subsequent
                      THEN <<Line("is subsequent button press", 0)>>
                           \o found.log
                           \o <<Line("Selected route", found.selectedRoute)>>
                      ELSE <<>>)
                  \o <<Line("saved routes from event", 0)>>
        /\ possibleRoutes' = saveRoutesFromEvent(possibleRoutes, ev)
        /\ lastButtonPressTime' = saveLastButtonPressTime(t2)

\* The body of eventhandler for an OFF event: it returns after the first line.
handleOff(op) ==
    /\ log' = <<Line("event handler", op)>>
    /\ sent' = <<>>
    /\ UNCHANGED <<presses, chainStart, evs, now, possibleRoutes, lastButtonPressTime>>

\* void eventhandler(byte eventIndex, const VLCB::VlcbMessage *msg)
\* ev are the event variables of the event at eventIndex, op is msg->data[0].
\* The clock does not run backwards, and the handler takes less than two
\* ticks between its two readings of it.
eventhandler(ev, op) ==
    /\ handled' = TRUE
    /\ opc' = op
    /\ UNCHANGED nv1
    /\ IF ~ison(op)
       THEN handleOff(op)
       ELSE \E t1 \in Times, lag \in Lags :
               /\ t1 >= lastButtonPressTime
               /\ t1 + lag \in Times
               /\ handleOn(ev, op, t1, t1 + lag)

\* Globals are zero-initialised; node variable 1 holds any configured value.
Init ==
    /\ lastButtonPressTime = 0
    /\ possibleRoutes = [i \in Slots |-> 0]
    /\ nv1 \in NVValues
    /\ handled = FALSE
    /\ presses = 0
    /\ chainStart = 0
    /\ opc = OPC_ACOF
    /\ evs = [i \in Slots |-> 0]
    /\ now = 0
    /\ sent = <<>>
    /\ log = <<>>

Next == \E ev \in CandidateSets, op \in Opcodes : eventhandler(ev, op)

Spec == Init /\ [][Next]_vars

TypeOK ==
    /\ lastButtonPressTime \in Times
    /\ possibleRoutes \in CandidateSets
    /\ nv1 \in NVValues
    /\ handled \in BOOLEAN
    /\ presses \in 0..2
    /\ chainStart \in Times
    /\ opc \in Opcodes
    /\ evs \in CandidateSets
    /\ now \in Times
    /\ sent \in Seq(Routes)
    /\ Len(sent) <= 1

(***************************************************************************)
(* Observations of the most recent call of eventhandler.                   *)
(***************************************************************************)
\* the most recent call was for an ON event (even opcode) / an OFF event
OnHandled == handled /\ opc % 2 = 0
OffHandled == handled /\ opc % 2 = 1

Logged(text) == \E k \in 1..Len(log) : log[k].text = text
LoggedVal(text) == log[CHOOSE k \in 1..Len(log) : log[k].text = text].val

\* the call printed "is subsequent button press"
Classified == Logged("is subsequent button press")
\* the value findMatchingRoute returned, as the call printed it
ResolverResult == LoggedVal("Selected route")
NoRoutesLogged == Logged("No possible routes found.")
FoundLogged == Logged("Found possible routes")

\* the window the press timer compares with, for the configured nv1
TimingWindowMs == buttonPressInterval(nv1)

InSet(set, v) == \E j \in Slots : set[j] = v
\* the non-zero values two candidate sets have in common
CommonNonZero(newSet, stored) ==
    {v \in Routes \ {0} : InSet(newSet, v) /\ InSet(stored, v)}
\* the slots of newSet whose value appears in stored
MatchingSlots(newSet, stored) == {i \in Slots : InSet(stored, newSet[i])}
\* the slots of newSet whose value is not 0 and appears in stored
NonZeroMatchingSlots(newSet, stored) ==
    {i \in Slots : newSet[i] # 0 /\ InSet(stored, newSet[i])}
LowestSlot(slots) == CHOOSE i \in slots : \A k \in slots : i <= k
FirstValue(newSet, slots) == IF slots = {} THEN 0 ELSE newSet[LowestSlot(slots)]

(***************************************************************************)
(* C1: an OFF event (opcode with low bit 1) leaves possibleRoutes and      *)
(* lastButtonPressTime as they were and sends no message.                  *)
(***************************************************************************)
C1_OffEventChangesNothing ==
    [][OffHandled' =>
         /\ possibleRoutes' = possibleRoutes
         /\ lastButtonPressTime' = lastButtonPressTime
         /\ sent' = <<>>]_vars

\* an OFF event was handled after a press had saved routes and a time
C1_Witness ==
    /\ OffHandled
    /\ presses >= 1
    /\ lastButtonPressTime > 0
    /\ possibleRoutes[1] # 0
    /\ sent = <<>>

(***************************************************************************)
(* C2: when the resolver returns 0 the call sends no message.              *)
(***************************************************************************)
C2_NoMessageForRouteZero ==
    (OnHandled /\ Classified /\ ResolverResult = 0) => sent = <<>>

(***************************************************************************)
(* C3 as claimed: the resolver returns the value of the lowest slot of the *)
(* new set whose value appears anywhere in the stored set, 0 if none does. *)
(***************************************************************************)
C3_FirstMatchingSlot ==
    [][(OnHandled' /\ Classified') =>
         ResolverResult' = FirstValue(evs', MatchingSlots(evs', possibleRoutes))]_vars

(***************************************************************************)
(* C3 as amended: the resolver returns the value of the lowest slot of the *)
(* new set whose value is not 0 and appears anywhere in the stored set     *)
(* (whatever its position there), 0 if there is no such slot.              *)
(***************************************************************************)
C3_FirstNonZeroMatchingSlot ==
    [][(OnHandled' /\ Classified') =>
         ResolverResult' =
             FirstValue(evs', NonZeroMatchingSlots(evs', possibleRoutes))]_vars

\* both slots matched, and the first slot's 2 was returned, not the lower 1
C3_Witness ==
    /\ OnHandled /\ Classified
    /\ evs[1] = 2 /\ evs[NumEVs] = 1
    /\ FoundLogged /\ LoggedVal("Found possible routes") = NumEVs
    /\ ResolverResult = 2

(***************************************************************************)
(* C4: a subsequent press whose candidates have exactly one non-zero value *)
(* in common with the stored candidates sends exactly one message, with    *)
(* that value.                                                             *)
(***************************************************************************)
C4_UniqueMatchIsSent ==
    [][(OnHandled' /\ Classified'
          /\ Cardinality(CommonNonZero(evs', possibleRoutes)) = 1) =>
         \E v \in CommonNonZero(evs', possibleRoutes) : sent' = <<v>>]_vars

\* one route matched, in the last slot; the first slot's route did not
C4_Witness ==
    /\ OnHandled /\ Classified
    /\ evs[1] = 2 /\ evs[NumEVs] = 1
    /\ ~FoundLogged /\ ~NoRoutesLogged
    /\ sent = <<1>>

(***************************************************************************)
(* C5: a press at or after lastButtonPressTime + the timing window sends   *)
(* nothing, and afterwards the stored candidates are that press's.  The    *)
(* window is taken both as the press timer computes it and as nv1 * 100.   *)
(***************************************************************************)
C5_FirstPressSendsNothing ==
    [][(OnHandled'
          /\ \/ now' >= lastButtonPressTime + TimingWindowMs
             \/ now' >= lastButtonPressTime + nv1 * 100) =>
         /\ sent' = <<>>
         /\ possibleRoutes' = evs']_vars

\* a second press, outside a window of 100 ms, with configured candidates
C5_Witness ==
    /\ OnHandled /\ presses = 2
    /\ nv1 = 1 /\ now >= 100
    /\ ~Classified
    /\ sent = <<>>
    /\ possibleRoutes = evs /\ evs[1] # 0

(***************************************************************************)
(* C6: a press is classified as subsequent exactly when the clock read at  *)
(* the classification is strictly less than lastButtonPressTime + the      *)
(* window the press timer computed; at that sum or later it is a first     *)
(* press.                                                                  *)
(***************************************************************************)
C6_SubsequentIffStrictlyInsideWindow ==
    [][OnHandled' =>
         (Classified' <=> now' < lastButtonPressTime + TimingWindowMs)]_vars

\* a second press exactly 100 ms after a press at 0, window 100 ms: first
C6_Witness ==
    /\ OnHandled /\ presses = 2
    /\ nv1 = 1 /\ TimingWindowMs = 100
    /\ now = 100
    /\ ~Classified

(***************************************************************************)
(* C7: the window the press timer uses is nv1 * 100 ms for every value of  *)
(* node variable 1: a press is subsequent exactly when it comes less than  *)
(* nv1 * 100 ms after lastButtonPressTime.                                 *)
(***************************************************************************)
C7_WindowIsHundredTimesNV ==
    [][OnHandled' =>
         (Classified' <=> now' < lastButtonPressTime + nv1 * 100)]_vars

(***************************************************************************)
(* C8: after every ON event, first or subsequent, possibleRoutes is        *)
(* exactly the event's EVs, slot by slot, and lastButtonPressTime is the   *)
(* clock of that call (read at the classification or up to a tick later).  *)
(***************************************************************************)
C8_StoreAndTimeRefreshed ==
    OnHandled =>
        /\ \A i \in Slots : possibleRoutes[i] = evs[i]
        /\ \E lag \in Lags : lastButtonPressTime = now + lag

\* a subsequent press that matched route 2 and has an unconfigured slot:
\* the slot is saved as 0
C8_Witness ==
    /\ OnHandled /\ presses = 2 /\ Classified
    /\ sent = <<2>>
    /\ evs[1] = 0
    /\ possibleRoutes[1] = 0 /\ possibleRoutes[NumEVs] = 2
    /\ lastButtonPressTime > 0

(***************************************************************************)
(* C9: slots of the new set with value 0 are never counted as matches:     *)
(* "Found N possible routes" is printed only when two or more non-zero     *)
(* slots match, and "No possible routes found." whenever none does.        *)
(***************************************************************************)
C9_ZeroIsNeverAMatch ==
    [][(OnHandled' /\ Classified') =>
         LET n == Cardinality(NonZeroMatchingSlots(evs', possibleRoutes))
         IN  /\ FoundLogged' => n >= 2
             /\ n = 0 => NoRoutesLogged']_vars

(***************************************************************************)
(* C10: when the new and the stored set have no non-zero value in common,  *)
(* the resolver returns 0 and counts no match ("No possible routes         *)
(* found.").                                                               *)
(***************************************************************************)
C10_DisjointSetsCountNoMatch ==
    [][(OnHandled' /\ Classified' /\ CommonNonZero(evs', possibleRoutes) = {}) =>
         /\ ResolverResult' = 0
         /\ NoRoutesLogged']_vars

\* routeCount of findMatchingRoute as its diagnostics show it: 0 with
\* "No possible routes found.", N with "Found N possible routes", else 1
LoggedRouteCount ==
    IF NoRoutesLogged THEN 0
    ELSE IF FoundLogged THEN LoggedVal("Found possible routes")
    ELSE 1

(***************************************************************************)
(* C11: a subsequent press whose candidates are the stored candidates,     *)
(* none of them 0, counts every slot as a match (duplicates included) and  *)
(* selects the route of the first slot.                                    *)
(***************************************************************************)
C11_SameSetMatchesEverySlot ==
    [][(OnHandled' /\ Classified'
          /\ evs' = possibleRoutes
          /\ \A i \in Slots : evs'[i] # 0) =>
         /\ LoggedRouteCount' = NumEVs
         /\ ResolverResult' = evs'[1]]_vars

\* a press with candidates 1 and 2, of which every slot matched the
\* stored candidates, selected the first slot's route
C11_Witness ==
    /\ OnHandled /\ presses = 2 /\ Classified
    /\ evs[1] = 1 /\ \A i \in Slots \ {1} : evs[i] = 2
    /\ LoggedRouteCount = NumEVs
    /\ ResolverResult = 1
    /\ sent = <<1>>

(***************************************************************************)
(* C13 as claimed: the time an ON event saves in lastButtonPressTime is    *)
(* the clock reading that classified the event.                            *)
(***************************************************************************)
C13_SavedTimeIsClassificationReading ==
    OnHandled => lastButtonPressTime = now

(***************************************************************************)
(* C13 as amended: the time an ON event saves is a second reading of the   *)
(* clock, taken by saveLastButtonPressTime at the end of the call: it is   *)
(* never earlier than the reading that classified the event and can be     *)
(* later, by the time the call took.                                       *)
(***************************************************************************)
C13_SavedTimeIsLaterReading ==
    OnHandled =>
        /\ lastButtonPressTime >= now
        /\ lastButtonPressTime - now <= TickMs

\* a press classified at one tick saved the time of the next tick
C13_Witness ==
    /\ OnHandled /\ presses = 2
    /\ now = TickMs
    /\ lastButtonPressTime = 2 * TickMs

(***************************************************************************)
(* C14: the first ON event after start sends no message, also when it      *)
(* comes less than the timing window after start.                          *)
(***************************************************************************)
C14_FirstPressAfterStartSendsNothing ==
    (OnHandled /\ presses = 1) => sent = <<>>

(***************************************************************************)
(* C15: a non-zero route in a message is one of the EVs of the event that  *)
(* caused it and one of the candidates stored at the call, which are the   *)
(* EVs of the ON event before it.                                          *)
(***************************************************************************)
C15_SentRouteIsInBothSets ==
    [][OnHandled' =>
         \A k \in 1..Len(sent') :
             sent'[k] # 0 =>
                 /\ InSet(evs', sent'[k])
                 /\ InSet(possibleRoutes, sent'[k])
                 /\ InSet(evs, sent'[k])]_vars

\* route 2 was sent for an event whose other candidate, 1, was not stored
C15_Witness ==
    /\ OnHandled /\ presses = 2 /\ Classified
    /\ evs[1] = 1 /\ evs[NumEVs] = 2
    /\ LoggedRouteCount = 1
    /\ sent = <<2>>

(***************************************************************************)
(* C16: a call of eventhandler sends at most one message; when two or more *)
(* slots with a non-zero route match, that one message carries the route   *)
(* of the first of them and "Found N possible routes" is printed.          *)
(***************************************************************************)
C16_AtMostOneMessage ==
    [][handled' =>
         /\ Len(sent') <= 1
         /\ (OnHandled' /\ Classified'
               /\ Cardinality(NonZeroMatchingSlots(evs', possibleRoutes)) >= 2) =>
                /\ sent' = <<FirstValue(evs', NonZeroMatchingSlots(evs', possibleRoutes))>>
                /\ FoundLogged']_vars

\* two non-zero slots matched: one message, with the first slot's route
C16_Witness ==
    /\ OnHandled /\ Classified
    /\ evs[1] = 2 /\ evs[2] = 2
    /\ FoundLogged /\ LoggedVal("Found possible routes") >= 2
    /\ Len(sent) = 1 /\ sent[1] = 2

(***************************************************************************)
(* C12: every ON event restarts the window.  An ON event that comes less   *)
(* than the window after the time saved by the ON event before it is       *)
(* subsequent, however long ago the chain began, and it is resolved        *)
(* against the EVs of that one event: not against an earlier event's, nor  *)
(* against what earlier events had in common.                              *)
(***************************************************************************)
C12_WindowRestartsEveryPress ==
    [][(presses >= 1 /\ OnHandled'
          /\ now' < lastButtonPressTime + TimingWindowMs) =>
         /\ Classified'
         /\ ResolverResult' = FirstValue(evs', NonZeroMatchingSlots(evs', evs))
         /\ lastButtonPressTime' >= now']_vars

\* window 100 ms: a press is subsequent 100 ms or more after the time
\* saved by the first press of its chain, so after a press in between
C12_Witness ==
    /\ OnHandled /\ presses = 2 /\ Classified
    /\ nv1 = 1 /\ TimingWindowMs = 100
    /\ now >= chainStart + TimingWindowMs

====
